---- MODULE Spec2Model ----
(***************************************************************************)
(* Model of the bookmark store of Bitlatte/bookmark (src/main.go).         *)
(*                                                                         *)
(* Strings are sequences of one-character strings, so that path cleaning,  *)
(* joining, tilde expansion and the JSON string encoding are computed and  *)
(* not assumed.  "xFF" stands for one byte that is not valid UTF-8 and     *)
(* "uFFFD" for the Unicode replacement character.                          *)
(***************************************************************************)
EXTENDS Integers, Sequences, FiniteSets, TLC

VARIABLES store, file, last, faults

vars == <<store, file, last, faults>>

(***************************************************************************)
(* Bounds.                                                                 *)
(***************************************************************************)
\* Add is explored on collections shorter than MaxBookmarks; at most
\* MaxFaults I/O failures (write, load, working directory) occur in a run.
MaxBookmarks == 3

MaxFaults == 1

(***************************************************************************)
(* The environment of one run: the invocations, the home directory, the    *)
(* working directory and the filesystem that os.Stat looks at.             *)
(***************************************************************************)
Procs == {1, 2}

HomeDir == <<"/", "h">>

Cwd == <<"/", "w">>

\* Locations are sequences of component names below the root.
\* /h, /h/x and /w are directories, /w/f is a regular file, nothing else
\* exists.
FileSystem ==
    [loc \in {<< <<"h">> >>, << <<"h">>, <<"x">> >>, << <<"w">> >>,
              << <<"w">>, <<"f">> >>} |->
        IF loc = << <<"w">>, <<"f">> >> THEN "file" ELSE "dir"]

Names == {<<"w">>, <<"W">>, <<"o">>}

RawPaths ==
    { <<>>,                          \* ""       no such entry
      <<"~">>,                       \* "~"      the home directory
      <<"/", "h", "/">>,             \* "/h/"    the home directory again
      <<".">>,                       \* "."      the working directory
      <<"x", "/", ".", ".">>,        \* "x/.."   through a missing entry
      <<"f", "/", "x">> }            \* "f/x"    below a regular file

\* Command-line arguments are byte strings: a name need not be valid UTF-8.
ByteNames == {<<"w">>, <<"xFF">>}

BytePaths == {<<"~">>, <<".">>}

(***************************************************************************)
(* path/filepath: Clean, Join, IsAbs, Abs (Unix).                          *)
(***************************************************************************)
RECURSIVE SplitAcc(_, _, _, _)
SplitAcc(s, i, cur, acc) ==
    IF i > Len(s)
    THEN IF cur = <<>> THEN acc ELSE Append(acc, cur)
    ELSE IF s[i] = "/"
         THEN SplitAcc(s, i + 1, <<>>, IF cur = <<>> THEN acc ELSE Append(acc, cur))
         ELSE SplitAcc(s, i + 1, Append(cur, s[i]), acc)

\* The non-empty components of a path, in order.
Components(s) == SplitAcc(s, 1, <<>>, <<>>)

Dot == <<".">>

DotDot == <<".", ".">>

RECURSIVE CleanAcc(_, _, _, _)
CleanAcc(comps, i, rooted, out) ==
    IF i > Len(comps) THEN out
    ELSE LET c == comps[i] IN
         IF c = Dot THEN CleanAcc(comps, i + 1, rooted, out)
         ELSE IF c = DotDot
              THEN IF out # <<>> /\ out[Len(out)] # DotDot
                   THEN CleanAcc(comps, i + 1, rooted, SubSeq(out, 1, Len(out) - 1))
                   ELSE IF rooted
                        THEN CleanAcc(comps, i + 1, rooted, out)
                        ELSE CleanAcc(comps, i + 1, rooted, Append(out, c))
              ELSE CleanAcc(comps, i + 1, rooted, Append(out, c))

RECURSIVE JoinSlash(_)
JoinSlash(comps) ==
    IF comps = <<>> THEN <<>>
    ELSE IF Len(comps) = 1 THEN comps[1]
         ELSE comps[1] \o <<"/">> \o JoinSlash(Tail(comps))

IsAbs(path) == path # <<>> /\ path[1] = "/"

Clean(path) ==
    IF path = <<>> THEN Dot
    ELSE LET rooted == IsAbs(path)
             body == JoinSlash(CleanAcc(Components(path), 1, rooted, <<>>))
         IN IF rooted THEN <<"/">> \o body
            ELSE IF body = <<>> THEN Dot ELSE body

\* filepath.Join of two elements.
Join(a, b) ==
    IF a # <<>> THEN Clean(a \o <<"/">> \o b)
    ELSE IF b # <<>> THEN Clean(b) ELSE <<>>

\* filepath.Abs when os.Getwd succeeds.
Abs(path) == IF IsAbs(path) THEN Clean(path) ELSE Join(Cwd, path)

HasPrefixTilde(path) == path # <<>> /\ path[1] = "~"

(***************************************************************************)
(* os.Stat: the kernel's path walk over FileSystem (no symbolic links).    *)
(***************************************************************************)
Kind(loc) ==
    IF loc = <<>> THEN "dir"
    ELSE IF loc \in DOMAIN FileSystem THEN FileSystem[loc] ELSE "none"

RECURSIVE Walk(_, _, _, _)
Walk(comps, i, loc, slash) ==
    IF i > Len(comps)
    THEN IF slash /\ Kind(loc) # "dir" THEN "ENOTDIR" ELSE "ok"
    ELSE IF Kind(loc) # "dir" THEN "ENOTDIR"
         ELSE LET c == comps[i] IN
              IF c = Dot THEN Walk(comps, i + 1, loc, slash)
              ELSE IF c = DotDot
                   THEN Walk(comps, i + 1,
                             IF loc = <<>> THEN loc ELSE SubSeq(loc, 1, Len(loc) - 1),
                             slash)
                   ELSE IF Kind(Append(loc, c)) = "none" THEN "ENOENT"
                        ELSE Walk(comps, i + 1, Append(loc, c), slash)

Stat(path) ==
    IF path = <<>> THEN "ENOENT"
    ELSE Walk(Components(path), 1,
              IF IsAbs(path) THEN <<>> ELSE Components(Cwd),
              path[Len(path)] = "/")

\* os.IsNotExist(err) for the error of os.Stat.
IsNotExist(st) == st = "ENOENT"

(***************************************************************************)
(* encoding/json: strings are coerced to valid UTF-8 in both directions.   *)
(***************************************************************************)
CoerceUTF8(s) == [i \in DOMAIN s |-> IF s[i] = "xFF" THEN "uFFFD" ELSE s[i]]

Marshal(bs) ==
    [kind |-> "doc",
     bookmarks |-> [i \in DOMAIN bs |->
                      [Name |-> CoerceUTF8(bs[i].Name), Path |-> CoerceUTF8(bs[i].Path)]]]

\* What a file that the program did not write may hold in the place of a
\* record's "name" or "path": no such member, or a JSON number.
MissingField == <<"(missing)">>

NumberValue == <<"(number)">>

\* A member that is missing leaves the field of the Go struct at its zero
\* value, the empty string.
DecodeField(v) == IF v = MissingField THEN <<>> ELSE CoerceUTF8(v)

Unmarshal(f) ==
    [i \in DOMAIN f.bookmarks |->
        [Name |-> DecodeField(f.bookmarks[i].Name),
         Path |-> DecodeField(f.bookmarks[i].Path)]]

\* json.Unmarshal reports an error for text that is not JSON and for a value
\* of the wrong JSON type, and for nothing else.
UnmarshalFails(f) ==
    \/ f.kind \in {"trunc", "badtype"}
    \/ \E i \in DOMAIN f.bookmarks :
          NumberValue \in {f.bookmarks[i].Name, f.bookmarks[i].Path}

Absent == [kind |-> "absent", bookmarks |-> <<>>]

Truncated == [kind |-> "trunc", bookmarks |-> <<>>]

\* The other contents the file can have: the JSON text null, an object
\* without the "bookmarks" member, "bookmarks" holding a number, and a
\* document with a member the program does not know.
NullText == [kind |-> "null", bookmarks |-> <<>>]

NoKey == [kind |-> "nokey", bookmarks |-> <<>>]

BadType == [kind |-> "badtype", bookmarks |-> <<>>]

Doc(records) == [kind |-> "doc", bookmarks |-> records]

DocExtra(records) == [kind |-> "docextra", bookmarks |-> records]

(***************************************************************************)
(* The store.                                                              *)
(***************************************************************************)
NoStore == [status |-> "none", Bookmarks |-> <<>>]

\* The store pointer that json.Unmarshal(data, &store) has set to nil.
NilStore == [status |-> "nil", Bookmarks |-> <<>>]

Ready(bs) == [status |-> "ready", Bookmarks |-> bs]

Bookmark(name, path) == [Name |-> name, Path |-> path]

Result(op, p, name, path, err, info, list) ==
    [op |-> op, proc |-> p, name |-> name, path |-> path,
     err |-> err, info |-> info, list |-> list]

Init ==
    /\ store = [p \in Procs |-> NoStore]
    /\ file = Absent
    /\ last = Result("init", 0, <<>>, <<>>, "", <<>>, <<>>)
    /\ faults = 0

\* Faulty variant: names compared without regard to case.
Fold(s) == [i \in DOMAIN s |-> IF s[i] = "W" THEN "w" ELSE s[i]]

RECURSIVE IndexOfName_fold(_, _, _)
IndexOfName_fold(bs, name, i) ==
    IF i > Len(bs) THEN 0
    ELSE IF Fold(bs[i].Name) = Fold(name) THEN i ELSE IndexOfName_fold(bs, name, i + 1)

\* Index of the first record with this name (0 when there is none).
RECURSIVE IndexOfName(_, _, _)
IndexOfName(bs, name, i) ==
    IF i > Len(bs) THEN 0
    ELSE IF bs[i].Name = name THEN i ELSE IndexOfName(bs, name, i + 1)

RECURSIVE IndexOfPath(_, _, _)
IndexOfPath(bs, path, i) ==
    IF i > Len(bs) THEN 0
    ELSE IF bs[i].Path = path THEN i ELSE IndexOfPath(bs, path, i + 1)

\* Faulty variant: the name check finds nothing.
HasName_never(bs, name) == FALSE

HasName(bs, name) == IndexOfName(bs, name, 1) # 0

\* Faulty variant: the path check finds nothing.
HasPath_never(bs, path) == FALSE

HasPath(bs, path) == IndexOfPath(bs, path, 1) # 0

\* Faulty variant: the last record is moved into the freed slot.
RemoveAt_swap(bs, i) ==
    [j \in 1..(Len(bs) - 1) |-> IF j = i THEN bs[Len(bs)] ELSE bs[j]]

\* append(s.Bookmarks[:i], s.Bookmarks[i+1:]...)
RemoveAt(bs, i) == SubSeq(bs, 1, i - 1) \o SubSeq(bs, i + 1, Len(bs))

SaveOutcomes == {"ok", "openfail", "writefail"}

LoadOutcomes == {"ok", "nohome", "mkdirfail", "statfail", "readfail"}

\* Faulty variant: the write keeps the records that are in the file and adds
\* the records of the collection that the file does not have.
Save_merge(bs, w) ==
    LET Missing(r) == \A i \in DOMAIN file.bookmarks : file.bookmarks[i] # r IN
    IF w = "ok"
    THEN [err |-> "", file |-> [kind |-> "doc",
                                bookmarks |-> file.bookmarks \o
                                    SelectSeq(Marshal(bs).bookmarks, Missing)]]
    ELSE IF w = "openfail" THEN [err |-> "StorageWrite", file |-> file]
         ELSE [err |-> "StorageWrite", file |-> Truncated]

\* Faulty variant: a failed write is reported as success.
Save_swallow(bs, w) ==
    IF w = "ok" THEN [err |-> "", file |-> Marshal(bs)]
    ELSE IF w = "openfail" THEN [err |-> "", file |-> file]
         ELSE [err |-> "", file |-> Truncated]

\* Save: serialize the whole collection and overwrite the file.  os.WriteFile
\* opens with O_TRUNC and then writes: a failed open leaves the file as it
\* was, a failed write leaves it truncated.
Save(bs, w) ==
    IF w = "ok" THEN [err |-> "", file |-> Marshal(bs)]
    ELSE IF w = "openfail" THEN [err |-> "StorageWrite", file |-> file]
         ELSE [err |-> "StorageWrite", file |-> Truncated]

\* Faulty variant: the file is read without the os.Stat test, so reading a
\* file that does not exist fails.
Load_noStat(env) ==
    IF env = "nohome" THEN [err |-> "HomeDir", store |-> NoStore]
    ELSE IF env = "mkdirfail" THEN [err |-> "ConfigDir", store |-> NoStore]
    ELSE IF file.kind = "absent" \/ env = "readfail"
         THEN [err |-> "StorageRead", store |-> NoStore]
    ELSE IF UnmarshalFails(file) THEN [err |-> "StorageFormat", store |-> NoStore]
    ELSE [err |-> "", store |-> Ready(Unmarshal(file))]

\* NewBookmarkStore: the outcome of construction under environment env.
Load(env) ==
    IF env = "nohome" THEN [err |-> "HomeDir", store |-> NoStore]
    ELSE IF env = "mkdirfail" THEN [err |-> "ConfigDir", store |-> NoStore]
    ELSE IF file.kind = "absent" \/ env = "statfail" THEN [err |-> "", store |-> Ready(<<>>)]
    ELSE IF env = "readfail" THEN [err |-> "StorageRead", store |-> NoStore]
    ELSE IF UnmarshalFails(file) THEN [err |-> "StorageFormat", store |-> NoStore]
    ELSE IF file.kind = "null" THEN [err |-> "", store |-> NilStore]
    ELSE [err |-> "", store |-> Ready(Unmarshal(file))]

NewBookmarkStore(p, env) ==
    /\ store[p].status = "none"
    /\ env # "ok" => faults < MaxFaults
    /\ env = "readfail" => file.kind # "absent"
    /\ LET r == Load(env) IN
       /\ store' = [store EXCEPT ![p] = r.store]
       /\ last' = Result("New", p, <<>>, <<>>, r.err, <<>>, <<>>)
    /\ faults' = IF env = "ok" THEN faults ELSE faults + 1
    /\ UNCHANGED file

\* Faulty variant: the new record goes to the front.
AppendBookmark_front(bs, name, absPath) == <<Bookmark(name, absPath)>> \o bs

\* The new record goes to the end of the collection.
AppendBookmark(bs, name, absPath) == Append(bs, Bookmark(name, absPath))

\* The leading "~" replaced by the home directory.
Expand(path) == IF HasPrefixTilde(path) THEN Join(HomeDir, Tail(path)) ELSE path

\* Faulty variant: the path is validated before the name is looked up.
AddCheck_pathFirst(bs, name, path, wdErr) ==
    LET expanded == Expand(path) IN
    IF IsNotExist(Stat(expanded))
    THEN [err |-> "PathNotFound", info |-> expanded, abs |-> <<>>]
    ELSE IF HasName(bs, name)
         THEN [err |-> "DuplicateName", info |-> bs[IndexOfName(bs, name, 1)].Path,
               abs |-> <<>>]
         ELSE IF ~IsAbs(expanded) /\ wdErr
              THEN [err |-> "Abs", info |-> <<>>, abs |-> <<>>]
              ELSE LET absPath == Abs(expanded) IN
                   IF HasPath(bs, absPath)
                   THEN [err |-> "DuplicatePath",
                         info |-> bs[IndexOfPath(bs, absPath, 1)].Name, abs |-> absPath]
                   ELSE [err |-> "", info |-> <<>>, abs |-> absPath]

\* Add up to the append: the checks in the order of the code.  wdErr says
\* that os.Getwd fails inside filepath.Abs (reached for relative paths only).
\* os.UserHomeDir cannot fail here: it succeeded when the store was built and
\* the process does not change its environment.  os.Stat rejects on a
\* not-exist error only; any other failure of os.Stat falls through.
AddCheck(bs, name, path, wdErr) ==
    IF HasName(bs, name)
    THEN [err |-> "DuplicateName", info |-> bs[IndexOfName(bs, name, 1)].Path, abs |-> <<>>]
    ELSE LET expanded == Expand(path) IN
         IF IsNotExist(Stat(expanded))
         THEN [err |-> "PathNotFound", info |-> expanded, abs |-> <<>>]
         ELSE IF ~IsAbs(expanded) /\ wdErr
              THEN [err |-> "Abs", info |-> <<>>, abs |-> <<>>]
              ELSE LET absPath == Abs(expanded) IN
                   IF HasPath(bs, absPath)
                   THEN [err |-> "DuplicatePath",
                         info |-> bs[IndexOfPath(bs, absPath, 1)].Name, abs |-> absPath]
                   ELSE [err |-> "", info |-> <<>>, abs |-> absPath]

\* A method that reads s.Bookmarks through a nil store pointer: the runtime
\* panics and the process dies.
Panic(p, op, name, path) ==
    /\ store' = [store EXCEPT ![p] = NoStore]
    /\ last' = Result(op, p, name, path, "panic", <<>>, <<>>)
    /\ UNCHANGED <<file, faults>>

\* Faulty variant: the record is appended before the duplicate-path check, so
\* an Add that this check rejects has already changed the collection.
Add_eager(p, name, path, wdErr, w) ==
    /\ store[p].status = "ready"
    /\ LET bs == store[p].Bookmarks
           c == AddCheck(bs, name, path, wdErr)
       IN IF c.err # ""
          THEN /\ w = "ok"
               /\ wdErr => (c.err = "Abs" /\ faults < MaxFaults)
               /\ last' = Result("Add", p, name, path, c.err, c.info, <<>>)
               /\ faults' = IF wdErr THEN faults + 1 ELSE faults
               /\ store' = IF c.err = "DuplicatePath" /\ Len(bs) < MaxBookmarks
                           THEN [store EXCEPT ![p] =
                                    Ready(AppendBookmark(bs, name, Abs(Expand(path))))]
                           ELSE store
               /\ UNCHANGED file
          ELSE /\ ~wdErr
               /\ Len(bs) < MaxBookmarks
               /\ w # "ok" => faults < MaxFaults
               /\ LET appended == AppendBookmark(bs, name, c.abs)
                      s == Save(appended, w)
                  IN /\ store' = [store EXCEPT ![p] = Ready(appended)]
                     /\ file' = s.file
                     /\ last' = Result("Add", p, name, path, s.err, c.abs, <<>>)
               /\ faults' = IF w = "ok" THEN faults ELSE faults + 1

Add(p, name, path, wdErr, w) ==
    /\ store[p].status \in {"ready", "nil"}
    /\ LET bs == store[p].Bookmarks
           c == AddCheck(bs, name, path, wdErr)
       IN IF store[p].status = "nil"
          THEN w = "ok" /\ ~wdErr /\ Panic(p, "Add", name, path)
          ELSE IF c.err # ""
          THEN /\ w = "ok"
               /\ wdErr => (c.err = "Abs" /\ faults < MaxFaults)
               /\ last' = Result("Add", p, name, path, c.err, c.info, <<>>)
               /\ faults' = IF wdErr THEN faults + 1 ELSE faults
               /\ UNCHANGED <<store, file>>
          ELSE /\ ~wdErr
               /\ Len(bs) < MaxBookmarks
               /\ w # "ok" => faults < MaxFaults
               /\ LET appended == AppendBookmark(bs, name, c.abs)
                      s == Save(appended, w)
                  IN /\ store' = [store EXCEPT ![p] = Ready(appended)]
                     /\ file' = s.file
                     /\ last' = Result("Add", p, name, path, s.err, c.abs, <<>>)
               /\ faults' = IF w = "ok" THEN faults ELSE faults + 1

\* Faulty variant: the file is rewritten also when no record has the name.
Remove_alwaysSave(p, name, w) ==
    /\ store[p].status = "ready"
    /\ w # "ok" => faults < MaxFaults
    /\ LET bs == store[p].Bookmarks
           i == IndexOfName(bs, name, 1)
           after == IF i = 0 THEN bs ELSE RemoveAt(bs, i)
           s == Save(after, w)
       IN /\ store' = [store EXCEPT ![p] = Ready(after)]
          /\ file' = s.file
          /\ last' = IF i = 0
                     THEN Result("Remove", p, name, <<>>, "BookmarkNotFound", name, <<>>)
                     ELSE Result("Remove", p, name, <<>>, s.err, <<>>, <<>>)
    /\ faults' = IF w = "ok" THEN faults ELSE faults + 1

Remove(p, name, w) ==
    /\ store[p].status \in {"ready", "nil"}
    /\ LET bs == store[p].Bookmarks
           i == IndexOfName(bs, name, 1)
       IN IF store[p].status = "nil"
          THEN w = "ok" /\ Panic(p, "Remove", name, <<>>)
          ELSE IF i = 0
          THEN /\ w = "ok"
               /\ last' = Result("Remove", p, name, <<>>, "BookmarkNotFound", name, <<>>)
               /\ UNCHANGED <<store, file, faults>>
          ELSE /\ w # "ok" => faults < MaxFaults
               /\ LET s == Save(RemoveAt(bs, i), w) IN
                  /\ store' = [store EXCEPT ![p] = Ready(RemoveAt(bs, i))]
                  /\ file' = s.file
                  /\ last' = Result("Remove", p, name, <<>>, s.err, <<>>, <<>>)
               /\ faults' = IF w = "ok" THEN faults ELSE faults + 1

Get(p, name) ==
    /\ store[p].status \in {"ready", "nil"}
    /\ LET bs == store[p].Bookmarks
           i == IndexOfName(bs, name, 1)
       IN IF store[p].status = "nil"
          THEN Panic(p, "Get", name, <<>>)
          ELSE /\ last' = IF i = 0
                          THEN Result("Get", p, name, <<>>, "BookmarkNotFound", name, <<>>)
                          ELSE Result("Get", p, name, <<>>, "", bs[i].Path, <<>>)
               /\ UNCHANGED <<store, file, faults>>

\* Faulty variant: the records are returned newest first.
List_reversed(p) ==
    /\ store[p].status = "ready"
    /\ LET bs == store[p].Bookmarks IN
       last' = Result("List", p, <<>>, <<>>, "", <<>>,
                      [i \in DOMAIN bs |-> bs[Len(bs) + 1 - i]])
    /\ UNCHANGED <<store, file, faults>>

List(p) ==
    /\ store[p].status \in {"ready", "nil"}
    /\ IF store[p].status = "nil"
       THEN Panic(p, "List", <<>>, <<>>)
       ELSE /\ last' = Result("List", p, <<>>, <<>>, "", <<>>, store[p].Bookmarks)
            /\ UNCHANGED <<store, file, faults>>

\* The invocation ends and its store is discarded.
Exit(p) ==
    /\ store[p].status \in {"ready", "nil"}
    /\ store' = [store EXCEPT ![p] = NoStore]
    /\ last' = Result("Exit", p, <<>>, <<>>, "", <<>>, <<>>)
    /\ UNCHANGED <<file, faults>>

\* The argument list of a command whose name argument was left out.
NoArg == <<"(none)">>

\* fmt.Print(os.UserHomeDir()) prints both results of the call, the directory
\* and the nil error, and puts no space after an operand that is a string.
FmtPrintHomeDir == HomeDir \o <<"<", "n", "i", "l", ">">>

\* The exit status of a command: 1 after a reported error, 2 after a panic.
ExitStatus(err) == IF err = "" THEN 0 ELSE IF err = "panic" THEN 2 ELSE 1

\* The go command of main on the store main has constructed; the info field
\* of its record is what the command wrote to standard output. The process
\* ends with the command.
CmdGo(p, arg) ==
    /\ store[p].status \in {"ready", "nil"}
    /\ LET bs == store[p].Bookmarks
           i == IndexOfName(bs, arg, 1)
       IN IF arg # NoArg /\ store[p].status = "nil"
          THEN Panic(p, "go", arg, <<>>)
          ELSE /\ last' = IF arg = NoArg
                          THEN Result("go", p, arg, <<>>, "", FmtPrintHomeDir, <<>>)
                          ELSE IF i = 0
                          THEN Result("go", p, arg, <<>>, "BookmarkNotFound", <<>>, <<>>)
                          ELSE Result("go", p, arg, <<>>, "", bs[i].Path, <<>>)
               /\ store' = [store EXCEPT ![p] = NoStore]
               /\ UNCHANGED <<file, faults>>

\* One invocation at a time, the sequential use the store is designed for,
\* with the names and raw paths the caller passes drawn from the given sets.
Step(names, paths) ==
    \/ \E env \in LoadOutcomes : NewBookmarkStore(1, env)
    \/ \E name \in names, path \in paths, wdErr \in BOOLEAN, w \in SaveOutcomes :
          Add(1, name, path, wdErr, w)
    \/ \E name \in names, w \in SaveOutcomes : Remove(1, name, w)
    \/ \E name \in names : Get(1, name)
    \/ List(1)
    \/ Exit(1)

Next == Step(Names, RawPaths)

Spec == Init /\ [][Next]_vars

\* The same program called with a name that is not valid UTF-8.
NextBytes == Step(ByteNames, BytePaths)

SpecBytes == Init /\ [][NextBytes]_vars

\* The commands of main on a storage file that the program may not have
\* written itself, with the names and raw paths an argument list can hold (the
\* empty string among them) and no failure of the environment.
MainNames == {<<>>, <<"w">>}

MainPaths == {<<"~">>, <<"~", "x">>, <<"~", "/", "x">>, <<".">>}

FileContents ==
    {Absent, Truncated, NullText, NoKey, BadType, Doc(<<>>),
     Doc(<< Bookmark(<<"w">>, HomeDir) >>),
     DocExtra(<< Bookmark(<<"w">>, HomeDir) >>),
     Doc(<< Bookmark(<<"w">>, MissingField) >>),
     Doc(<< Bookmark(MissingField, HomeDir) >>),
     Doc(<< Bookmark(NumberValue, HomeDir) >>)}

InitMain ==
    /\ store = [p \in Procs |-> NoStore]
    /\ file \in FileContents
    /\ last = Result("init", 0, <<>>, <<>>, "", <<>>, <<>>)
    /\ faults = 0

StepMain(names, paths) ==
    \/ NewBookmarkStore(1, "ok")
    \/ \E name \in names, path \in paths : Add(1, name, path, FALSE, "ok")
    \/ \E name \in names : Remove(1, name, "ok")
    \/ \E arg \in names \cup {NoArg} : CmdGo(1, arg)
    \/ List(1)
    \/ Exit(1)

NextMain == StepMain(MainNames, MainPaths)

SpecMain == InitMain /\ [][NextMain]_vars

\* The same commands with ordinary names, from the state in which no storage
\* file exists.
CmdNames == {<<"w">>, <<"o">>}

NextCmd == StepMain(CmdNames, MainPaths)

SpecCmd == Init /\ [][NextCmd]_vars

\* Two invocations that run at the same time, each with its own store, on the
\* one storage file; their loads, mutations and exits interleave in any
\* order. No failure of the environment.
NextConc ==
    \E p \in Procs :
        \/ NewBookmarkStore(p, "ok")
        \/ \E name \in ByteNames, path \in BytePaths : Add(p, name, path, FALSE, "ok")
        \/ \E name \in ByteNames : Remove(p, name, "ok")
        \/ Exit(p)

SpecConc == Init /\ [][NextConc]_vars

TypeOK ==
    /\ faults \in 0..MaxFaults
    /\ \A p \in Procs : store[p].status \in {"none", "ready", "nil"}
    /\ file.kind \in {"absent", "doc", "trunc", "null", "nokey", "badtype", "docextra"}

(***************************************************************************)
(* Properties.                                                             *)
(***************************************************************************)
Unique(bs) ==
    \A i, j \in DOMAIN bs :
        i # j => (bs[i].Name # bs[j].Name /\ bs[i].Path # bs[j].Path)

\* The records with this name, by position.
Matches(bs, name) == {i \in DOMAIN bs : bs[i].Name = name}

\* The process of the step that is being taken, its collection before and after.
StepProc == last'.proc

Before == store[StepProc].Bookmarks

After == store'[StepProc].Bookmarks

\* C1: uniqueness. The empty collection has no two records with the same name
\* or the same path, and no Add or Remove, accepted or rejected, takes a
\* collection without such a pair to one with such a pair.
C1_Uniqueness ==
    [][(last'.op \in {"Add", "Remove"} /\ Unique(Before)) => Unique(After)]_vars

C1_Witness ==
    /\ last.op = "Add"
    /\ last.err \in {"DuplicateName", "DuplicatePath"}
    /\ Len(store[last.proc].Bookmarks) >= 2
    /\ Unique(store[last.proc].Bookmarks)

\* C2: after every Add or Remove that returned success the file is a document
\* from which a later construction loads exactly the in-memory collection
\* (same records, same order).
C2_PersistedEqualsMemory ==
    (last.op \in {"Add", "Remove"} /\ last.err = "")
        => (file.kind = "doc" /\ Unmarshal(file) = store[last.proc].Bookmarks)

\* C3: Add with the name of an existing record fails with DuplicateNameError,
\* the error carries that record's path, and the collection is unchanged.
C3_DuplicateName ==
    [][(last'.op = "Add" /\ Matches(Before, last'.name) # {})
         => /\ last'.err = "DuplicateName"
            /\ \E i \in Matches(Before, last'.name) : last'.info = Before[i].Path
            /\ After = Before]_vars

C3_Witness ==
    /\ last.op = "Add"
    /\ last.err = "DuplicateName"
    /\ Matches(store[last.proc].Bookmarks, last.name) # {}

\* The records with this path, by position.
PathMatches(bs, path) == {i \in DOMAIN bs : bs[i].Path = path}

\* The absolute form of the raw path of the step.
StepAbs == Abs(Expand(last'.path))

\* C4 as stated: Add with a new name whose raw path has the absolute form of an
\* existing record's path fails with DuplicatePathError, the error carries
\* that record's name, and the collection is unchanged.
C4_DuplicatePath_AsStated ==
    [][(/\ last'.op = "Add"
        /\ Matches(Before, last'.name) = {}
        /\ PathMatches(Before, StepAbs) # {})
         => /\ last'.err = "DuplicatePath"
            /\ \E i \in PathMatches(Before, StepAbs) : last'.info = Before[i].Name
            /\ After = Before]_vars

\* C4 amended: Add with a new name whose tilde-expanded path passes the
\* existence check and whose absolute form is an existing record's path leaves
\* the collection unchanged and fails with DuplicatePathError carrying that
\* record's name, or, for a relative path whose working directory cannot be
\* determined, with the error of the absolute-path conversion.
C4_DuplicatePath ==
    [][(/\ last'.op = "Add"
        /\ Matches(Before, last'.name) = {}
        /\ ~IsNotExist(Stat(Expand(last'.path)))
        /\ PathMatches(Before, StepAbs) # {})
         => /\ \/ /\ last'.err = "DuplicatePath"
                  /\ \E i \in PathMatches(Before, StepAbs) : last'.info = Before[i].Name
               \/ /\ last'.err = "Abs"
                  /\ ~IsAbs(Expand(last'.path))
            /\ After = Before]_vars

C4_Witness ==
    /\ last.op = "Add"
    /\ last.err = "DuplicatePath"
    /\ last.path = <<"/", "h", "/">>
    /\ \E i \in PathMatches(store[last.proc].Bookmarks, HomeDir) :
          store[last.proc].Bookmarks[i].Name = last.info

\* C5: Add with a new name whose tilde-expanded path is not an existing
\* filesystem entry fails with PathNotFoundError and leaves the collection
\* unchanged; a path is stored only if the existence check on it succeeded.
C5_PathNotFound ==
    [][(last'.op = "Add" /\ Matches(Before, last'.name) = {})
         => /\ Stat(Expand(last'.path)) # "ok"
                 => (last'.err = "PathNotFound" /\ After = Before)
            /\ After # Before => Stat(Expand(last'.path)) = "ok"]_vars

\* C6: a successful Add appends exactly the record (name, absolute form of the
\* raw path) at the end, leaves every earlier record where it was, and the
\* persisted array lists the records in that same order.
C6_Append ==
    [][(last'.op = "Add" /\ last'.err = "")
         => /\ After = Before \o << [Name |-> last'.name, Path |-> StepAbs] >>
            /\ file'.kind = "doc"
            /\ Len(file'.bookmarks) = Len(After)
            /\ \A i \in DOMAIN After :
                  /\ file'.bookmarks[i].Name = CoerceUTF8(After[i].Name)
                  /\ file'.bookmarks[i].Path = CoerceUTF8(After[i].Path)]_vars

C6_Witness ==
    /\ last.op = "Add"
    /\ last.err = ""
    /\ Len(store[last.proc].Bookmarks) = 3
    /\ store[last.proc].Bookmarks[3].Name = last.name
    /\ Len(file.bookmarks) = 3

\* The first position of a non-empty set of positions.
First(S) == CHOOSE i \in S : \A j \in S : i <= j

\* C7: Remove of a name that is present removes the first record with that
\* name and no other, keeps the rest in their order, rewrites the file when it
\* succeeds, and a Get of that name right afterwards fails with
\* BookmarkNotFoundError.
C7_Remove ==
    [][/\ (last'.op = "Remove" /\ Matches(Before, last'.name) # {})
            => LET i == First(Matches(Before, last'.name)) IN
               /\ Len(After) = Len(Before) - 1
               /\ \A j \in 1..(i - 1) : After[j] = Before[j]
               /\ \A j \in i..Len(After) : After[j] = Before[j + 1]
               /\ last'.err \in {"", "StorageWrite"}
               /\ last'.err = "" => (file'.kind = "doc" /\ Len(file'.bookmarks) = Len(After))
       /\ (/\ last.op = "Remove" /\ last.err # "BookmarkNotFound"
           /\ last'.op = "Get" /\ last'.proc = last.proc /\ last'.name = last.name)
            => last'.err = "BookmarkNotFound"]_vars

C7_Witness ==
    /\ last.op = "Remove"
    /\ last.err = ""
    /\ Len(store[last.proc].Bookmarks) = 2
    /\ Matches(store[last.proc].Bookmarks, last.name) = {}
    /\ Len(file.bookmarks) = 2

\* C8: Remove and Get fail with BookmarkNotFoundError exactly when no record
\* has that very name (case matters); otherwise Get returns the stored path
\* of the record with that name.
C8_NotFound ==
    [][last'.op \in {"Get", "Remove"}
         => /\ (last'.err = "BookmarkNotFound") <=> (Matches(Before, last'.name) = {})
            /\ (last'.op = "Get" /\ Matches(Before, last'.name) # {})
                 => /\ last'.err = ""
                    /\ last'.info = Before[First(Matches(Before, last'.name))].Path]_vars

C8_Witness ==
    /\ last.op = "Get"
    /\ last.name = <<"W">>
    /\ last.err = "BookmarkNotFound"
    /\ Matches(store[last.proc].Bookmarks, <<"w">>) # {}

\* C9: Get and List change neither the collection nor the file, List returns
\* the records in their current order, and a call repeated right after itself
\* returns what it returned before.
C9_PureReads ==
    [][/\ last'.op \in {"Get", "List"} => (store' = store /\ file' = file)
       /\ last'.op = "List" => last'.list = Before
       /\ (/\ last'.op \in {"Get", "List"} /\ last.op = last'.op
           /\ last.proc = last'.proc /\ last.name = last'.name)
            => (last'.err = last.err /\ last'.info = last.info /\ last'.list = last.list)]_vars

C9_Witness ==
    /\ last.op = "List"
    /\ Len(last.list) >= 2
    /\ last.list = store[last.proc].Bookmarks

\* C10: when the write fails after Add has appended the record, Add reports
\* StorageWriteError and not success, and the record stays in the in-memory
\* collection, where a following Get or List finds it.
C10_WriteFailure ==
    [][/\ (last'.op = "Add" /\ After # Before /\ file' # Marshal(After))
            => /\ last'.err = "StorageWrite"
               /\ After = Before \o << [Name |-> last'.name, Path |-> StepAbs] >>
       /\ (last.op = "Add" /\ last.err = "StorageWrite" /\ last'.proc = last.proc)
            => /\ (last'.op = "Get" /\ last'.name = last.name)
                    => (last'.err = "" /\ last'.info = last.info)
               /\ last'.op = "List"
                    => \E i \in DOMAIN last'.list :
                          last'.list[i] = [Name |-> last.name, Path |-> last.info]]_vars

C10_Witness ==
    /\ last.op = "Add"
    /\ last.err = "StorageWrite"
    /\ file # Marshal(store[last.proc].Bookmarks)
    /\ \E i \in Matches(store[last.proc].Bookmarks, last.name) :
          store[last.proc].Bookmarks[i].Path = last.info

\* C11 as stated: an operation that reports an error has left the collection
\* of its store as it was.
C11_NoPartialSuccess_AsStated ==
    [][last'.err # "" => store' = store]_vars

\* C11: an operation that reports an error other than StorageWriteError has
\* changed neither the collection nor the file. Only Add and Remove report
\* StorageWriteError, and then the whole change has been made to the
\* collection in memory: the record is appended, or the first record with the
\* name is gone.
C11_NoPartialSuccess ==
    [][/\ (last'.err # "" /\ last'.err # "StorageWrite")
            => (store' = store /\ file' = file)
       /\ last'.err = "StorageWrite"
            => \/ /\ last'.op = "Add"
                  /\ After = Before \o << [Name |-> last'.name, Path |-> StepAbs] >>
               \/ /\ last'.op = "Remove"
                  /\ Matches(Before, last'.name) # {}
                  /\ LET i == First(Matches(Before, last'.name)) IN
                     After = [j \in 1..(Len(Before) - 1) |->
                                 IF j < i THEN Before[j] ELSE Before[j + 1]]]_vars

\* A Remove whose write failed: the error is reported and the record is gone
\* from the collection, while the file is not the new collection.
C11_Witness ==
    /\ last.op = "Remove"
    /\ last.err = "StorageWrite"
    /\ Matches(store[last.proc].Bookmarks, last.name) = {}
    /\ file # Marshal(store[last.proc].Bookmarks)

\* The contents are a document of the expected schema: an object with the
\* bookmarks array whose records have a name and a path that are strings.
ValidSchema(f) ==
    /\ f.kind \in {"doc", "docextra"}
    /\ \A i \in DOMAIN f.bookmarks :
          {f.bookmarks[i].Name, f.bookmarks[i].Path} \cap {MissingField, NumberValue} = {}

\* C12: construction from an existing storage file whose contents are not a
\* document of the expected schema fails with StorageFormatError, and a
\* document with a member the program does not know is loaded.
C12_FormatError ==
    [][last'.op = "New" /\ file.kind # "absent"
         => IF ValidSchema(file)
            THEN last'.err = "" /\ store'[StepProc] = Ready(Unmarshal(file))
            ELSE last'.err = "StorageFormat" /\ store'[StepProc] = NoStore]_vars

\* C13: no operation ends in a panic, whatever the storage file held when the
\* store was constructed and whatever command follows.
C13_NoPanic == last.err # "panic"

\* The names of the records of a collection.
NamesOf(bs) == {bs[i].Name : i \in DOMAIN bs}

\* C14: no Add, whatever its name argument, puts a record with an empty name
\* into a collection that has none.
C14_NonEmptyName ==
    [][(last'.op = "Add" /\ <<>> \notin NamesOf(Before)) => <<>> \notin NamesOf(After)]_vars

\* C17: on a constructed store the go command writes the bare path and exits
\* with 0, the home directory when no name is given and the stored path when
\* the name is found, and writes nothing and exits with 1 when the name is not
\* found.
C17_GoOutput ==
    [][(last'.op = "go" /\ store[StepProc].status = "ready")
         => IF last'.name = NoArg
            THEN last'.info = HomeDir /\ ExitStatus(last'.err) = 0
            ELSE IF Matches(Before, last'.name) # {}
            THEN /\ last'.info = Before[First(Matches(Before, last'.name))].Path
                 /\ ExitStatus(last'.err) = 0
            ELSE last'.info = <<>> /\ ExitStatus(last'.err) = 1]_vars

\* The raw path with its leading tilde replaced by the home directory.
TildeReplaced(raw) == IF raw # <<>> /\ Head(raw) = "~" THEN HomeDir \o Tail(raw) ELSE raw

\* C18: the path that a successful Add stores is absolute, and it is the
\* absolute form of the raw path with a leading tilde replaced by the home
\* directory, or of the raw path itself when it has no leading tilde.
C18_TildeExpansion ==
    [][(last'.op = "Add" /\ last'.err = "")
         => /\ After # <<>>
            /\ IsAbs(After[Len(After)].Path)
            /\ After[Len(After)].Path = Abs(TildeReplaced(last'.path))]_vars

\* C15 as stated: construction when no storage file exists succeeds with an
\* empty collection, and List on that store returns the empty sequence.
C15_NoFile_AsStated ==
    [][/\ (last'.op = "New" /\ file.kind = "absent")
            => (last'.err = "" /\ store'[StepProc] = Ready(<<>>))
       /\ (last.op = "New" /\ last.err = "" /\ file.kind = "absent"
              /\ last'.op = "List" /\ last'.proc = last.proc)
            => last'.list = <<>>]_vars

\* C15: construction when no storage file exists fails only when the home
\* directory cannot be determined or the configuration directory cannot be
\* created; otherwise it succeeds with an empty collection, and List on that
\* store returns the empty sequence.
C15_NoFile ==
    [][/\ (last'.op = "New" /\ file.kind = "absent")
            => /\ last'.err \in {"", "HomeDir", "ConfigDir"}
               /\ last'.err = "" => store'[StepProc] = Ready(<<>>)
       /\ (last.op = "New" /\ last.err = "" /\ file.kind = "absent"
              /\ last'.op = "List" /\ last'.proc = last.proc)
            => last'.list = <<>>]_vars

\* List has returned the empty sequence on a store constructed with no file.
C15_Witness ==
    /\ last.op = "List"
    /\ last.list = <<>>
    /\ last.err = ""
    /\ file.kind = "absent"
    /\ store[last.proc] = Ready(<<>>)

\* The step is an Add or a Remove that was rejected before any write.
Rejected ==
    \/ last'.op = "Add" /\ last'.err \in {"DuplicateName", "PathNotFound", "DuplicatePath"}
    \/ last'.op = "Remove" /\ last'.err = "BookmarkNotFound"

\* C19: a rejected Add or Remove attempts no write: the file is what it was
\* before the call, no write outcome is consumed, and the collection is
\* unchanged.
C19_NoWriteOnReject ==
    [][Rejected => (file' = file /\ faults' = faults /\ After = Before)]_vars

\* A Remove of a name that is absent was rejected while the file differs from
\* what a Save of the collection would write.
C19_Witness ==
    /\ last.op = "Remove"
    /\ last.err = "BookmarkNotFound"
    /\ store[last.proc].status = "ready"
    /\ file # Marshal(store[last.proc].Bookmarks)

\* The records of a collection as a Save writes them.
FileRecords(bs) == {Marshal(bs).bookmarks[i] : i \in DOMAIN bs}

\* The record of the successful Add that was the last step, as written.
LastAdded == [Name |-> CoerceUTF8(last.name), Path |-> CoerceUTF8(last.info)]

\* C16: lost update. A successful Add or Remove writes the snapshot of its own
\* invocation. So when one invocation has added a record with success and
\* another invocation, whose collection was loaded before and does not hold
\* that record, then mutates with success, the file no longer has the record
\* of the first; and a record that the first has removed with success is back
\* in the file when the other still holds it.
C16_LostUpdate ==
    [][(/\ last'.op \in {"Add", "Remove"}
        /\ last'.err = ""
        /\ last.op \in {"Add", "Remove"}
        /\ last.err = ""
        /\ last'.proc # last.proc)
         => /\ file' = Marshal(After)
            /\ (/\ last.op = "Add"
                /\ LastAdded \notin FileRecords(Before)
                /\ LastAdded # [Name |-> CoerceUTF8(last'.name), Path |-> CoerceUTF8(last'.info)])
                 => \A i \in DOMAIN file'.bookmarks : file'.bookmarks[i] # LastAdded
            /\ (/\ last.op = "Remove"
                /\ last'.op = "Add"
                /\ Matches(Before, last.name) # {})
                 => \E i \in DOMAIN file'.bookmarks :
                       file'.bookmarks[i].Name = CoerceUTF8(last.name)]_vars

\* Both invocations hold one record, with different names and paths, and the
\* file has only the record of the invocation that saved last.
C16_Witness ==
    /\ last.op = "Add"
    /\ last.err = ""
    /\ \A p \in Procs : store[p].status = "ready" /\ Len(store[p].Bookmarks) = 1
    /\ Unique(Marshal(store[1].Bookmarks \o store[2].Bookmarks).bookmarks)
    /\ file = Marshal(store[last.proc].Bookmarks)

\* C20: every persisted file has no two records with the same name or the same
\* path, however the invocations interleave.
C20_PersistedUnique == file.kind = "doc" => Unique(file.bookmarks)

====
